---- MODULE Spec2Model ----
(***************************************************************************)
(* A model of the blockchain module (src/src/index.js), its blocks         *)
(* (src/src/block.js), its queued data objects (src/src/queued-data.js)    *)
(* and the block states (src/unnamed/part_000).                            *)
(*                                                                         *)
(* JavaScript runs every handler to completion on one thread.  A handler   *)
(* that emits a notification of the chain calls the listeners of that      *)
(* notification synchronously, and a listener may call the chain again     *)
(* (abort, resume, enqueueData, difficulty assignment) before the emitting *)
(* code continues.  The model keeps the JavaScript call stack in `stack`:  *)
(* a frame stands at a notification of the chain ("a window") while its    *)
(* listeners run, or is the search callback of a block.  Calls from the    *)
(* program's top level are possible only when the stack is empty; calls    *)
(* from a listener only while the topmost frame is a window.               *)
(***************************************************************************)
EXTENDS Integers, Sequences, FiniteSets, TLC

VARIABLES
    chain,       \* this._.chain: the committed blocks (references into heap)
    queue,       \* this._.queue: the queued data objects
    block,       \* this._.block: the block being initialized, or Null
    difficulty,  \* this._.difficulty
    heap,        \* every block object created so far, by reference
    ticks,       \* process.nextTick queue: blocks whose search is scheduled
    stack,       \* the call stack (see above)
    entries,     \* every queued data object enqueueData created, in call order
    worker,      \* the hash worker process: its handler's position and replies
    last         \* what the last step did: operation, notification, error

vars == <<chain, queue, block, difficulty, heap, ticks, stack, entries, worker, last>>

----------------------------------------------------------------------------
(* Bounds of the model. *)

MaxEntries == 2     \* enqueueData calls in one behaviour
MaxEntriesD == 2    \* the same, where the difficulty is assigned numbers
MaxBlocks == 3      \* blocks created in one behaviour
MaxBlocksD == 2     \* the same, where the difficulty is assigned numbers
MaxDepth == 2       \* notifications being delivered at once (nested listeners)
MaxNonce == 5       \* hash attempts of one search
MaxCreated == 2     \* blocks created by direct calls of createBlock
MaxMessages == 1    \* messages sent to the hash worker
MaxEntriesA == 1    \* enqueueData calls, where blocks are added from outside
MaxBlocksA == 2     \* blocks created, where blocks are added from outside

----------------------------------------------------------------------------
(* Values. *)

\* Block states (block-states module).
INITIALIZING == 0
READY == 1
ABORTED == 2

\* null, as the value of this._.block and as a reference.
Null == 0

\* undefined / an absent option.  The numbers of the model are naturals.
Undefined == -1

\* NaN, and the string 'abc' (a string that is not the text of a number),
\* as values of a difficulty.
NaN == -2
Abc == -3

\* The falsy values among them: undefined, 0 and NaN (in a || b).
Falsy(v) == v \in {Undefined, 0, NaN}

\* ToNumber(v) is NaN: every comparison with v is false.
IsNaN(v) == v \in {Undefined, NaN, Abc}

\* Number of hex digits of a digest in the model (64 in SHA-256).
HashLen == 2

HashSpace == 16 ^ HashLen

\* The largest digest value: a difficulty every digest satisfies.
MaxHashValue == HashSpace - 1

\* Default proof of work difficulty: the digests with leading zero digits
\* (2^240 - 1 of 2^256 in the source), scaled to the model's digest width.
DIFFICULTY == (HashSpace \div 4) - 1

\* The empty string (previousHash of the genesis block).
EmptyString == <<>>

\* null as the value of a block's hash: no sequence of hex digits.
NullHash == <<-1>>

\* A hash option left out; as the empty string, it is falsy.
NoHash == EmptyString

\* JavaScript values used as payloads: null/undefined, a scalar, or an object
\* with optional properties id and data.
Absent == [kind |-> "absent", val |-> Undefined, id |-> Undefined, data |-> Undefined]
Scalar(v) == [kind |-> "scalar", val |-> v, id |-> Undefined, data |-> Undefined]
Obj(i, d) == [kind |-> "object", val |-> Undefined, id |-> i, data |-> d]

Payloads == {Absent, Scalar(1), Obj(7, 2)}

\* The options a caller passes to enqueueData: { data } or { id, data }.
Opts(i, d) == [id |-> i, data |-> d]
EnqueueInputs == {Opts(Undefined, Absent), Opts(Undefined, Scalar(1)), Opts(9, Obj(7, 2))}

\* The same, where numbers are assigned to the difficulty: { data } with the
\* data left out or a scalar.
EnqueueInputsD == {Opts(Undefined, Absent), Opts(Undefined, Scalar(1))}

\* Values assigned to the difficulty property, with their typeof: numbers
\* (the one every digest satisfies, and NaN), or a non-number (the string
\* '255').
Number(v) == [isNumber |-> TRUE, v |-> v]
NotANumber == [isNumber |-> FALSE, v |-> MaxHashValue]
DifficultyInputs == {Number(MaxHashValue), Number(NaN)}
NonNumbers == {NotANumber}

\* The difficulty option of createBlockchain: left out, the number every
\* digest satisfies, or the string 'abc'.
ChainDifficultyOptions == {Undefined, MaxHashValue, Abc}

\* opts.difficulty || DIFFICULTY: any truthy value is taken as it is.
ChainDifficulty(d) == IF ~Falsy(d) THEN d ELSE DIFFICULTY

\* The values Date.now() can return when the blocks of h have been
\* created: the millisecond of the latest of them (two blocks are created
\* in the same millisecond) or the next one; 1 for the first block.
DateNow(h) ==
    IF h = <<>> THEN {1}
    ELSE LET latest == CHOOSE d \in {h[b].date : b \in 1..Len(h)} :
                            \A b \in 1..Len(h) : h[b].date <= d
         IN  {latest, latest + 1}

\* crypto.randomBytes(256).toString('hex'): a token no other call returns.
RandomIdOfEntry(seq) == 100 + seq
RandomIdOfBlock(ref) == 200 + ref

NoEntry == [id |-> Undefined, data |-> Absent, seq |-> 0]

----------------------------------------------------------------------------
(* Pure functions. *)

\* createQueuedData({ id, data }): id || random.
QueuedDataId(id, random) == IF ~Falsy(id) THEN id ELSE random

\* createQueuedData({ id, data }): the object returned, for every data.
CreateQueuedData(opts, random) ==
    [id |-> QueuedDataId(opts.id, random), data |-> opts.data]

\* The destructuring { id, data } of an argument: the properties of an
\* object, undefined for a scalar.
PropId(v) == IF v.kind = "object" THEN v.id ELSE Undefined
PropData(v) == IF v.kind = "object" THEN v.data ELSE Undefined

\* queuedData(opts.data) in createBlock: the block wraps its data option.
BlockData(payload, random) ==
    Obj(QueuedDataId(PropId(payload), random), PropData(payload))

\* assert.notEqual(opts.data, null): loose inequality with null.
DataPresent(payload) == payload.kind # "absent"

RECURSIVE Mix(_, _)
Mix(s, acc) ==
    IF s = <<>> THEN acc
    ELSE Mix(Tail(s), (acc * 31 + Head(s) + 7) % HashSpace)

RECURSIVE ToHex(_, _)
ToHex(v, n) == IF n = 0 THEN <<>> ELSE Append(ToHex(v \div 16, n - 1), v % 16)

\* sha256.update(s); sha256.digest('hex'): a deterministic digest of the
\* string, HashLen hex digits long.
Sha256(s) == ToHex((Mix(s, 0) * 77 + 13) % HashSpace, HashLen)

\* parseInt(hash, 16)
RECURSIVE ParseInt16(_)
ParseInt16(h) ==
    IF h = <<>> THEN 0 ELSE 16 * ParseInt16(SubSeq(h, 1, Len(h) - 1)) + h[Len(h)]

\* The signiture of a block without its nonce: the concatenation of the
\* strings of its fields.
Signiture(b) ==
    <<b.index, b.difficulty>> \o b.previousHash \o <<b.data.id, b.data.data, b.date>>

\* The digest of a block with nonce n.
HashWithNonce(b, n) == Sha256(Signiture(b) \o <<n>>)

\* a > d and a <= d for a number a and a difficulty d: both are false
\* when d is not a number.
GreaterThan(a, d) == ~IsNaN(d) /\ a > d
AtMost(a, d) == ~IsNaN(d) /\ a <= d

\* parseInt(hash, 16) > difficulty: the candidate is rejected.
Rejected(h, d) == GreaterThan(ParseInt16(h), d)

\* Block's valid accessor.
BlockValid(b) ==
    LET h == HashWithNonce(b, b.nonce)
    IN  h = b.hash /\ AtMost(ParseInt16(h), b.difficulty)

----------------------------------------------------------------------------
(* The call stack. *)

\* The notifications of the chain; "block-added" is the 'new-block'
\* notification of addBlock.
Windows ==
    {"enqueue-data", "waiting", "constructing-block", "new-block", "block-added"}

Frame(pc, b, qd) == [pc |-> pc, b |-> b, qd |-> qd]

Top == stack[Len(stack)]
Below == SubSeq(stack, 1, Len(stack) - 1)

InWindow == stack # <<>> /\ Top.pc \in Windows

\* A chain operation can be called from the top level or from a listener.
CanCall == stack = <<>> \/ InWindow

\* The number of notifications of the chain being delivered.
RECURSIVE WindowDepth(_)
WindowDepth(s) ==
    IF s = <<>> THEN 0
    ELSE WindowDepth(Tail(s)) + (IF Head(s).pc \in Windows THEN 1 ELSE 0)

\* An error thrown to the caller standing on `base` unwinds the stack to the
\* listener that catches it, or to the top level when no listener does: the
\* code of the chain and of the block catches nothing.
Unwinds(base) ==
    {SubSeq(base, 1, k) : k \in {j \in 0..Len(base) : j = 0 \/ base[j].pc \in Windows}}

Did(op, ev, err) == [op |-> op, ev |-> ev, err |-> err]

----------------------------------------------------------------------------
(* Accessors of the chain. *)

\* nextIndex
NextIndex == Len(chain)

\* Mutant of IndexOption: counts every block created, aborted ones included.
IndexOptionCountsCreated == Len(heap)

\* index option of the next block.
IndexOption == NextIndex

\* latestBlock.hash
LatestHash == heap[chain[Len(chain)]].hash

\* Mutant of NextPreviousHash: every block is linked as a genesis block.
NextPreviousHashEmpty == EmptyString

\* previousHash option of the next block.
NextPreviousHash == IF NextIndex = 0 THEN EmptyString ELSE LatestHash

\* Mutant of NextDifficulty: the default is used, not the assigned value.
NextDifficultyDefault == DIFFICULTY

\* difficulty option of the next block.
NextDifficulty == difficulty

\* Mutant of ChainValid: only the first block of the chain is looked at.
ChainValidFirst(c, h) == c = <<>> \/ BlockValid(h[c[1]])

\* The chain's valid accessor: no block of the chain has valid === false.
ChainValid(c, h) == ~ \E i \in 1..Len(c) : BlockValid(h[c[i]]) = FALSE

\* Mutant of Working: the guard is missing.
WorkingNever(blk) == FALSE

\* Mutant of Working: only a block still INITIALIZING counts.
WorkingWhileInitializing(blk) == blk # Null /\ heap[blk].state = INITIALIZING

\* The guard of constructNextBlock: the chain is working on a block.
Working(blk) == blk # Null

\* Mutant of Push: the new entry goes to the head.
PushAtHead(q, qd) == <<qd>> \o q

\* queue.push
Push(q, qd) == Append(q, qd)

\* Mutant of Shift: the head is read and left in the queue.
ShiftKeepsHead(q) == q

\* The queue after queue.shift()
Shift(q) == Tail(q)

\* Mutant of Unshift: the entry of an aborted block goes to the tail.
UnshiftAtTail(q, qd) == Append(q, qd)

\* queue.unshift
Unshift(q, qd) == <<qd>> \o q

\* The options of createBlock.  An option left out is undefined: Undefined
\* for nonce and date, NoHash for hash.
BlockOpts(data, index, diff, prev, nonce, hash, date) ==
    [data |-> data, index |-> index, difficulty |-> diff, previousHash |-> prev,
     nonce |-> nonce, hash |-> hash, date |-> date]

\* opts.nonce || -1: undefined and 0 are falsy.
NonceOption(n) == IF ~Falsy(n) THEN n ELSE -1

\* Mutant of HashOption: the hash option is ignored.
HashOptionIgnored(h) == NullHash

\* opts.hash || null: undefined and '' are falsy.
HashOption(h) == IF h # NoHash THEN h ELSE NullHash

\* opts.date || Date.now(), when Date.now() returns now.
DateOption(d, now) == IF ~Falsy(d) THEN d ELSE now

\* state: states.INITIALIZING, whatever the options.
InitialState(opts) == INITIALIZING

\* The object createBlock(opts) builds at time now, as the block with
\* reference ref.
\* listening and qd are the listeners the chain registers on the block and
\* the queued data object they hold; emitted is the list of the 'ready' and
\* 'aborted' notifications the block has emitted; suppliedHash and
\* suppliedNonce are the hash and nonce options of the call, kept for the
\* properties.
CreateBlock(opts, ref, now) ==
    [data |-> BlockData(opts.data, RandomIdOfBlock(ref)),
     index |-> opts.index,
     difficulty |-> opts.difficulty,
     previousHash |-> opts.previousHash,
     nonce |-> NonceOption(opts.nonce),
     hash |-> HashOption(opts.hash),
     date |-> DateOption(opts.date, now),
     state |-> InitialState(opts),
     listening |-> FALSE,
     qd |-> NoEntry,
     emitted |-> <<>>,
     suppliedHash |-> opts.hash,
     suppliedNonce |-> opts.nonce]

\* generateHash, up to process.nextTick: no search is scheduled for a block
\* that has a hash.
GenerateHash(t, b, ref) == IF b.hash # NullHash THEN t ELSE Append(t, ref)

\* The options the chain passes to createBlock: no nonce, hash or date.
ChainOpts(payload) ==
    BlockOpts(payload, IndexOption, NextDifficulty, NextPreviousHash,
              Undefined, NoHash, Undefined)

\* createBlock(opts) as the chain calls it.
NewBlock(payload, ref, now) == CreateBlock(ChainOpts(payload), ref, now)

\* A previousHash option left out: undefined, no string.
NoPreviousHash == <<-1>>

\* The options of the direct calls of createBlock: an index and the default
\* difficulty or the one every digest satisfies; a nonce or none and a hash
\* or none; and calls that leave out the data, the index, the difficulty or
\* the previous hash.
CreateInputs ==
    {BlockOpts(Scalar(1), i, diff, EmptyString, Undefined, NoHash, Undefined) :
        i \in {0, 1}, diff \in {DIFFICULTY, MaxHashValue}}
    \cup {BlockOpts(Scalar(1), 0, DIFFICULTY, EmptyString, n, h, Undefined) :
            n \in {Undefined, 2}, h \in {NoHash, <<0, 1>>}}
    \cup {BlockOpts(Absent, 0, DIFFICULTY, EmptyString, Undefined, NoHash, Undefined),
          BlockOpts(Scalar(1), Undefined, DIFFICULTY, EmptyString, Undefined, NoHash, Undefined),
          BlockOpts(Scalar(1), 0, Undefined, EmptyString, Undefined, NoHash, Undefined),
          BlockOpts(Scalar(1), 0, DIFFICULTY, NoPreviousHash, Undefined, NoHash, Undefined)}

\* The required fields of createBlock: assert.notEqual(field, null) for
\* the data, the index, the difficulty and the previous hash.
RequiredFields(opts) ==
    /\ DataPresent(opts.data)
    /\ opts.index # Undefined
    /\ opts.difficulty # Undefined
    /\ opts.previousHash # NoPreviousHash

\* A signiture or a difficulty left out of a message to the hash worker.
NoSigniture == <<-1>>
NoDifficulty == -1

\* The payload of a message to the hash worker, decoded.
WorkerPayload(sig, diff) == [signiture |-> sig, difficulty |-> diff]

WorkerInputs ==
    {WorkerPayload(sig, diff) :
        sig \in {<<1>>, <<2, 3>>, NoSigniture},
        diff \in {NoDifficulty, MaxHashValue, 0}}

\* The hash worker process as node starts it: the module is not loaded
\* yet.  posted are the messages sent to the process, sent its replies.
WorkerSpawned == [pc |-> "spawned", posted |-> <<>>, sent |-> <<>>]

----------------------------------------------------------------------------
(* Operations. *)

Init ==
    /\ chain = <<>>
    /\ queue = <<>>
    /\ block = Null
    /\ difficulty \in {ChainDifficulty(d) : d \in ChainDifficultyOptions}
    /\ heap = <<>>
    /\ ticks = <<>>
    /\ stack = <<>>
    /\ entries = <<>>
    /\ worker = WorkerSpawned
    /\ last = Did("create", "none", "none")

\* constructNextBlock, called by a caller standing on `base` while
\* this._.block is blk, up to its first notification.
ConstructNextBlock(base, blk, op) ==
    IF Working(blk)
    THEN /\ stack' = base
         /\ block' = blk
         /\ last' = Did(op, "none", "none")
         /\ UNCHANGED <<queue, heap, ticks>>
    ELSE IF queue = <<>>
    THEN /\ stack' = Append(base, Frame("waiting", Null, NoEntry))
         /\ block' = blk
         /\ last' = Did(op, "waiting", "none")
         /\ UNCHANGED <<queue, heap, ticks>>
    ELSE LET qd == Head(queue)
             ref == Len(heap) + 1
         IN  /\ queue' = Shift(queue)
             /\ IF RequiredFields(ChainOpts(qd.data))
                THEN /\ \E now \in DateNow(heap) :
                        /\ heap' = Append(heap, NewBlock(qd.data, ref, now))
                        /\ ticks' = GenerateHash(ticks, NewBlock(qd.data, ref, now), ref)
                     /\ block' = ref
                     /\ stack' = Append(base, Frame("constructing-block", ref, qd))
                     /\ last' = Did(op, "constructing-block", "none")
                ELSE \* createBlock throws an AssertionError.
                     /\ block' = blk
                     /\ stack' \in Unwinds(base)
                     /\ last' = Did(op, "none", "assert")
                     /\ UNCHANGED <<heap, ticks>>

\* blockchain.resume()
Resume ==
    /\ CanCall
    /\ WindowDepth(stack) < MaxDepth
    /\ block # Null \/ queue = <<>> \/ Len(heap) < MaxBlocks
    /\ ConstructNextBlock(stack, block, "resume")
    /\ UNCHANGED <<chain, difficulty, entries, worker>>

\* blockchain.enqueueData(opts), up to its notification.
EnqueueData(opts) ==
    /\ CanCall
    /\ WindowDepth(stack) < MaxDepth
    /\ LET seq == Len(entries) + 1
           made == CreateQueuedData(opts, RandomIdOfEntry(seq))
           qd == [id |-> made.id, data |-> made.data, seq |-> seq]
       IN  /\ queue' = Push(queue, qd)
           /\ stack' = Append(stack, Frame("enqueue-data", Null, qd))
           /\ entries' = Append(entries, qd)
    /\ last' = Did("enqueueData", "enqueue-data", "none")
    /\ UNCHANGED <<chain, block, difficulty, heap, ticks, worker>>

\* The 'aborted' listener the chain registers on its block.
OnAborted(b) ==
    /\ queue' = Unshift(queue, heap[b].qd)
    /\ block' = Null

\* Mutant of StillInitializing: abort does not look at the state.
StillInitializingAlways(b) == TRUE

\* The guard of block.abort: this._.state === states.INITIALIZING
StillInitializing(b) == b.state = INITIALIZING

\* block.abort() on block b, with changeState(ABORTED) and the listeners of
\* 'aborted', called by a caller standing on the current stack.
AbortBlock(b) ==
    IF StillInitializing(heap[b])
    THEN /\ heap' = [heap EXCEPT ![b].state = ABORTED,
                                 ![b].emitted = Append(@, "aborted")]
         /\ IF heap[b].listening
            THEN OnAborted(b)
            ELSE UNCHANGED <<queue, block>>
         /\ last' = Did("abort", "aborted", "none")
         /\ UNCHANGED stack
    ELSE \* emit('error') on a block without an 'error' listener throws.
         /\ stack' \in Unwinds(stack)
         /\ last' = Did("abort", "none", "already")
         /\ UNCHANGED <<queue, block, heap>>

\* blockchain.abort()
Abort ==
    /\ CanCall
    /\ IF block = Null
       THEN /\ last' = Did("abort", "none", "none")
            /\ UNCHANGED <<queue, block, heap, stack>>
       ELSE AbortBlock(block)
    /\ UNCHANGED <<chain, difficulty, ticks, entries, worker>>

\* Mutant of TypeofNumber: the type check is missing.
TypeofAnything(value) == TRUE

\* typeof difficulty === 'number'
TypeofNumber(value) == value.isNumber

\* blockchain.difficulty = value
SetDifficulty(value) ==
    /\ CanCall
    /\ IF TypeofNumber(value)
       THEN /\ difficulty' = value.v
            /\ last' = Did("setDifficulty", "none", "none")
            /\ UNCHANGED stack
       ELSE /\ stack' \in Unwinds(stack)
            /\ last' = Did("setDifficulty", "none", "type")
            /\ UNCHANGED difficulty
    /\ UNCHANGED <<chain, queue, block, heap, ticks, entries, worker>>

\* this._.block.on('aborted', ...); this._.block.on('ready', ...)
Register(h, b, qd) == [h EXCEPT ![b].listening = TRUE, ![b].qd = qd]

\* The listeners of a notification have returned: the emitting code goes on.
ListenerReturn ==
    /\ InWindow
    /\ \/ /\ Top.pc = "enqueue-data"
          /\ block # Null \/ Len(heap) < MaxBlocks
          /\ ConstructNextBlock(Below, block, "enqueueData")
          /\ UNCHANGED <<chain, difficulty, entries, worker>>
       \/ /\ Top.pc = "waiting"
          /\ stack' = Below
          /\ last' = Did("return", "none", "none")
          /\ UNCHANGED <<chain, queue, block, difficulty, heap, ticks, entries, worker>>
       \/ /\ Top.pc = "constructing-block"
          /\ block # Null
          /\ heap' = Register(heap, block, Top.qd)
          /\ stack' = Below
          /\ last' = Did("return", "none", "none")
          /\ UNCHANGED <<chain, queue, block, difficulty, ticks, entries, worker>>
       \/ /\ Top.pc = "new-block"
          /\ queue = <<>> \/ Len(heap) < MaxBlocks
          /\ ConstructNextBlock(Below, Null, "ready")
          /\ UNCHANGED <<chain, difficulty, entries, worker>>

\* The process.nextTick callback of generateHash starts.
SearchStart ==
    /\ stack = <<>>
    /\ ticks # <<>>
    /\ stack' = <<Frame("search", Head(ticks), NoEntry)>>
    /\ ticks' = Tail(ticks)
    /\ last' = Did("tick", "none", "none")
    /\ UNCHANGED <<chain, queue, block, difficulty, heap, entries, worker>>

\* Mutant of OnReady: the active block is cleared before 'new-block'.
OnReadyClearsFirst(b) ==
    /\ chain' = Append(chain, block)
    /\ block' = Null
    /\ stack' = Append(stack, Frame("new-block", block, heap[b].qd))
    /\ last' = Did("search", "new-block", "none")

\* Mutant of OnReady: the block is put at the head of the committed list.
OnReadyUnshifts(b) ==
    /\ chain' = <<block>> \o chain
    /\ block' = block
    /\ stack' = Append(stack, Frame("new-block", block, heap[b].qd))
    /\ last' = Did("search", "new-block", "none")

\* The 'ready' listener the chain registers on its block, up to its
\* 'new-block' notification: this._.block is pushed and passed to the
\* listeners, and is cleared only after them (see ListenerReturn).
OnReady(b) ==
    /\ chain' = Append(chain, block)
    /\ block' = block
    /\ stack' = Append(stack, Frame("new-block", block, heap[b].qd))
    /\ last' = Did("search", "new-block", "none")

\* ++this._.nonce
NextNonce(n) == n + 1

\* Mutant of SearchContinues: the loop does not look at the state.
SearchContinuesAlways(b) == TRUE

\* The guard of the loop of generateHash: the block is still INITIALIZING.
SearchContinues(b) == b.state = INITIALIZING

\* One pass of the loop of generateHash, with changeState(READY) and the
\* 'ready' listener of the chain up to its notification.
SearchStep ==
    /\ stack # <<>>
    /\ Top.pc = "search"
    /\ LET b == Top.b
           n == NextNonce(heap[b].nonce)
           h == HashWithNonce(heap[b], n)
       IN  IF ~SearchContinues(heap[b])
           THEN /\ stack' = Below
                /\ last' = Did("search", "none", "none")
                /\ UNCHANGED <<chain, heap, block>>
           ELSE /\ n <= MaxNonce
                /\ IF Rejected(h, heap[b].difficulty)
                   THEN /\ heap' = [heap EXCEPT ![b].nonce = n]
                        /\ last' = Did("search", "none", "none")
                        /\ UNCHANGED <<chain, stack, block>>
                   ELSE /\ heap' = [heap EXCEPT ![b].nonce = n, ![b].hash = h,
                                                ![b].state = READY,
                                                ![b].emitted = Append(@, "ready")]
                        /\ IF heap[b].listening
                           THEN OnReady(b)
                           ELSE /\ last' = Did("search", "ready", "none")
                                /\ UNCHANGED <<chain, stack, block>>
    /\ UNCHANGED <<queue, difficulty, ticks, entries, worker>>

\* createBlock(opts) called directly: a block no chain listens to.
CreateBlockCall(opts) ==
    /\ stack = <<>>
    /\ worker = WorkerSpawned
    /\ LET ref == Len(heap) + 1
       IN  IF RequiredFields(opts)
           THEN /\ \E now \in DateNow(heap) :
                    /\ heap' = Append(heap, CreateBlock(opts, ref, now))
                    /\ ticks' = GenerateHash(ticks, CreateBlock(opts, ref, now), ref)
                /\ last' = Did("createBlock", "none", "none")
           ELSE /\ last' = Did("createBlock", "none", "assert")
                /\ UNCHANGED <<heap, ticks>>
    /\ UNCHANGED <<chain, queue, block, difficulty, stack, entries, worker>>

\* block.abort() called directly on a block.
BlockAbortCall(b) ==
    /\ stack = <<>>
    /\ AbortBlock(b)
    /\ UNCHANGED <<chain, difficulty, ticks, entries, worker>>

\* The fields of a block, as its accessors and toJSON return them.
FieldsOf(blk) ==
    BlockOpts(blk.data, blk.index, blk.difficulty, blk.previousHash,
              blk.nonce, blk.hash, blk.date)

\* createBlock called with the fields of the READY block b, searched by b
\* itself: the import of a block.
ImportBlockCall(b) ==
    /\ stack = <<>>
    /\ worker = WorkerSpawned
    /\ Len(heap) < MaxBlocks
    /\ heap[b].state = READY
    /\ heap[b].suppliedHash = NoHash
    /\ \E now \in DateNow(heap) :
        LET ref == Len(heap) + 1
            made == CreateBlock(FieldsOf(heap[b]), ref, now)
        IN  /\ heap' = Append(heap, made)
            /\ ticks' = GenerateHash(ticks, made, ref)
    /\ last' = [op |-> "import", ev |-> "none", err |-> "none", from |-> b]
    /\ UNCHANGED <<chain, queue, block, difficulty, stack, entries, worker>>

\* node loads the module of the hash worker: `catch () {` in parseJSON is a
\* SyntaxError, so the process exits before process.on('message') is
\* reached and no handler is ever registered.
WorkerLoad ==
    /\ heap = <<>>
    /\ worker.pc = "spawned"
    /\ worker' = [worker EXCEPT !.pc = "exited"]
    /\ last' = Did("worker", "none", "syntax")
    /\ UNCHANGED <<chain, queue, block, difficulty, heap, ticks, stack, entries>>

\* A message is sent to the hash worker process: no handler receives it
\* and nothing is sent back.  The worker is a process of its own; a
\* behaviour runs blocks or the worker.
WorkerMessage(payload) ==
    /\ heap = <<>>
    /\ worker' = [worker EXCEPT !.posted = Append(@, payload)]
    /\ last' = Did("message", "none", "none")
    /\ UNCHANGED <<chain, queue, block, difficulty, heap, ticks, stack, entries>>

\* The chain with its difficulty left as created.
Next ==
    \/ \E opts \in EnqueueInputs : Len(entries) < MaxEntries /\ EnqueueData(opts)
    \/ Resume
    \/ Abort
    \/ \E value \in NonNumbers : SetDifficulty(value)
    \/ ListenerReturn
    \/ SearchStart
    \/ SearchStep

Spec == Init /\ [][Next]_vars

\* The chain driven by enqueueData, abort and resume alone.
NextCalls ==
    \/ \E opts \in EnqueueInputs : Len(entries) < MaxEntries /\ EnqueueData(opts)
    \/ Resume
    \/ Abort
    \/ ListenerReturn
    \/ SearchStart
    \/ SearchStep

SpecCalls == Init /\ [][NextCalls]_vars

\* The same chain with its scheduling: a listener that runs returns, a
\* scheduled search callback starts, a search that can go on goes on, and a
\* caller that can resume the chain does so.
FairSpecCalls ==
    /\ SpecCalls
    /\ WF_vars(ListenerReturn)
    /\ WF_vars(SearchStart)
    /\ WF_vars(SearchStep)
    /\ WF_vars(Resume)

\* Mutant of GetChain: the accessor returns this._.chain itself.
GetChainSameArray == [blocks |-> chain, same |-> TRUE]

\* The chain accessor: this._.chain.slice(0), a new array of the same blocks.
GetChain == [blocks |-> chain, same |-> FALSE]

\* A caller empties the array the chain accessor returned to it
\* (blockchain.chain.length = 0): this._.chain follows when it is that array.
EmptyReturnedChain ==
    /\ CanCall
    /\ GetChain.blocks # <<>>
    /\ chain' = IF GetChain.same THEN <<>> ELSE chain
    /\ last' = Did("getChain", "none", "none")
    /\ UNCHANGED <<queue, block, difficulty, heap, ticks, stack, entries, worker>>

\* The chain with numbers assigned to its difficulty.
NextDifficultyAssigned ==
    /\ \/ \E opts \in EnqueueInputsD : Len(entries) < MaxEntriesD /\ EnqueueData(opts)
       \/ Resume
       \/ Abort
       \/ EmptyReturnedChain
       \/ \E value \in DifficultyInputs : SetDifficulty(value)
       \/ ListenerReturn
       \/ SearchStart
       \/ SearchStep
    /\ Len(heap') <= MaxBlocksD

SpecDifficulty == Init /\ [][NextDifficultyAssigned]_vars

\* The fields of a solved block for position i after previous hash p: the
\* first nonce from 1 whose digest meets the difficulty d, and that digest.
Probe(i, p, d) ==
    [index |-> i, difficulty |-> d, previousHash |-> p, data |-> Obj(7, 2), date |-> 1]

Solutions(i, p, d) ==
    {n \in 1..MaxNonce : ~Rejected(HashWithNonce(Probe(i, p, d), n), d)}

SolvedFields(i, p, d) ==
    LET found == Solutions(i, p, d)
    IN  {BlockOpts(Obj(7, 2), i, d, p, n, HashWithNonce(Probe(i, p, d), n), 1) :
            n \in {m \in found : \A k \in found : m <= k}}

\* The same fields with another hash.
WrongHash(h) == [h EXCEPT ![Len(h)] = (@ + 1) % 16]

\* The block fields passed to addBlock: solved blocks for position 0 or 1,
\* linked to nothing or to the latest block, with their hash or another.
AddBlockInputs ==
    LET solved == UNION {SolvedFields(i, p, difficulty) :
                            i \in {0, 1}, p \in {EmptyString, NextPreviousHash}}
    IN  solved \cup {[f EXCEPT !.hash = WrongHash(@)] : f \in solved}

\* Mutant of Acceptable: the position and the link are not looked at.
AcceptableUnlinked(blk, i, p) == BlockValid(blk)

\* The validation rule of addBlock: the block is valid, at the expected
\* position i, after the expected previous hash p.
Acceptable(blk, i, p) ==
    BlockValid(blk) /\ blk.index = i /\ blk.previousHash = p

\* The queue without the entry of identifier id.
RemoveById(q, id) == SelectSeq(q, LAMBDA e : e.id # id)

\* What addBlock did: its arguments and the boolean it returns.
DidAddBlock(fields, ev, err, ret) ==
    [op |-> "addBlock", ev |-> ev, err |-> err, ret |-> ret, fields |-> fields]

\* blockchain.addBlock(fields, id), up to its 'new-block' notification.
AddBlock(fields, id) ==
    /\ CanCall
    /\ WindowDepth(stack) < MaxDepth
    /\ LET ref == Len(heap) + 1
           \* the fields carry a date: Date.now() is not read.
           blk == CreateBlock(fields, ref, fields.date)
       IN  /\ Acceptable(blk, NextIndex, NextPreviousHash) => Len(heap) < MaxBlocks
           /\ IF ~Acceptable(blk, NextIndex, NextPreviousHash)
              THEN /\ last' = DidAddBlock(fields, "none", "none", FALSE)
                   /\ UNCHANGED <<chain, queue, block, heap, stack>>
              ELSE IF block # Null /\ ~StillInitializing(heap[block])
              THEN \* aborting a block that is READY or ABORTED throws.
                   /\ stack' \in Unwinds(stack)
                   /\ last' = DidAddBlock(fields, "none", "error", FALSE)
                   /\ UNCHANGED <<chain, queue, block, heap>>
              ELSE LET running == block # Null
                       heard == running /\ heap[block].listening
                       aborted == IF running
                                  THEN [heap EXCEPT ![block].state = ABORTED,
                                                    ![block].emitted = Append(@, "aborted")]
                                  ELSE heap
                       requeued == IF heard THEN Unshift(queue, heap[block].qd) ELSE queue
                   IN  /\ heap' = Append(aborted, blk)
                       /\ block' = IF heard THEN Null ELSE block
                       /\ chain' = Append(chain, ref)
                       /\ queue' = RemoveById(requeued, id)
                       /\ stack' = Append(stack, Frame("block-added", ref, NoEntry))
                       /\ last' = DidAddBlock(fields, "new-block", "none", TRUE)
    /\ UNCHANGED <<difficulty, ticks, entries, worker>>

\* The listeners of the 'new-block' notification of addBlock have returned:
\* addBlock resumes the construction.
AddBlockReturn ==
    /\ stack # <<>>
    /\ Top.pc = "block-added"
    /\ block # Null \/ queue = <<>> \/ Len(heap) < MaxBlocks
    /\ ConstructNextBlock(Below, block, "added")
    /\ UNCHANGED <<chain, difficulty, entries, worker>>

\* The chain with blocks added from outside.
NextAddBlock ==
    /\ \/ \E opts \in EnqueueInputs : Len(entries) < MaxEntriesA /\ EnqueueData(opts)
       \/ Resume
       \/ Abort
       \/ \E fields \in AddBlockInputs : \E id \in {9, 101} : AddBlock(fields, id)
       \/ AddBlockReturn
       \/ ListenerReturn
       \/ SearchStart
       \/ SearchStep
    /\ Len(heap') <= MaxBlocksA

SpecAddBlock == Init /\ [][NextAddBlock]_vars

\* Blocks created and aborted directly, and the hash worker.
NextBlock ==
    \/ \E opts \in CreateInputs : Len(heap) < MaxCreated /\ CreateBlockCall(opts)
    \/ \E b \in 1..Len(heap) : BlockAbortCall(b)
    \/ \E b \in 1..Len(heap) : ImportBlockCall(b)
    \/ SearchStart
    \/ SearchStep
    \/ WorkerLoad
    \/ \E payload \in WorkerInputs :
            Len(worker.posted) < MaxMessages /\ WorkerMessage(payload)

SpecBlock == Init /\ [][NextBlock]_vars

----------------------------------------------------------------------------
(* Properties. *)

Refs == 1..Len(heap)

\* The blocks whose search is pending or running: state INITIALIZING.
UnderConstruction == {b \in Refs : heap[b].state = INITIALIZING}

\* The committed block at position i (from 1) of this._.chain.
Committed(i) == heap[chain[i]]

\* C1: at most one block built by the chain is under construction at any
\* time, and it is the chain's active block: no block is constructed while
\* another one is active, whatever calls the listeners make.
C1_SingleConstruction ==
    /\ Cardinality(UnderConstruction) <= 1
    /\ \A b \in UnderConstruction : block = b

\* A listener called resume while a block was under construction and the
\* queue held an entry, after an earlier block was aborted: nothing was built.
C1_Witness ==
    /\ InWindow
    /\ last = Did("resume", "none", "none")
    /\ queue # <<>>
    /\ block # Null
    /\ heap[block].state = INITIALIZING
    /\ \E a \in Refs : heap[a].state = ABORTED

\* C2: the committed block at position i (from 0) has index i.
C2_IndexIsPosition ==
    \A i \in 1..Len(chain) : Committed(i).index = i - 1

\* Two blocks are committed, the second one after an aborted construction.
C2_Witness ==
    /\ Len(chain) = 2
    /\ Len(heap) > Len(chain)
    /\ \E a \in Refs : heap[a].state = ABORTED /\ a < chain[2]

\* C3: the first committed block has the empty string as previousHash, and
\* every later one has the hash of the block committed before it.
C3_Linkage ==
    \A i \in 1..Len(chain) :
        Committed(i).previousHash =
            IF i = 1 THEN EmptyString ELSE Committed(i - 1).hash

\* Two blocks are committed and linked.
C3_Witness ==
    /\ Len(chain) = 2
    /\ Committed(2).previousHash = Committed(1).hash
    /\ Committed(2).previousHash # EmptyString
    /\ Committed(1).previousHash = EmptyString

\* The queued data object block b was constructed for: the queuedDataInst of
\* the constructNextBlock call that created it, held by its listeners once
\* they are registered and by the call's frame before.
EntryOf(b) ==
    IF heap[b].listening THEN heap[b].qd
    ELSE LET at == {i \in 1..Len(stack) :
                        stack[i].pc = "constructing-block" /\ stack[i].b = b}
         IN  IF at = {} THEN NoEntry ELSE stack[CHOOSE i \in at : TRUE].qd

NoneAborted == \A b \in Refs : heap[b].state # ABORTED
AllPresent == \A k \in 1..Len(entries) : DataPresent(entries[k].data)

\* C4: an abort called while the active block is still INITIALIZING (at any
\* point after this._.block was set, the 'constructing-block' notification
\* included) leaves the chain without an active block, with the block's entry
\* back at the head of the queue and the committed list unchanged.
C4_AbortRoundTrip ==
    [][(last'.op = "abort" /\ block # Null /\ heap[block].state = INITIALIZING)
        => (/\ block' = Null
            /\ queue' = <<EntryOf(block)>> \o queue
            /\ chain' = chain)]_vars

\* C5: committed blocks are in submission order; and with no abort and
\* every payload present the committed blocks are the entries in the order
\* of their enqueueData calls, at consecutive indices from 0.
C5_SubmissionOrder ==
    /\ \A i, j \in 1..Len(chain) :
            i < j => Committed(i).qd.seq < Committed(j).qd.seq
    /\ (NoneAborted /\ AllPresent) =>
            \A i \in 1..Len(chain) :
                Committed(i).qd = entries[i] /\ Committed(i).index = i - 1

\* Two entries were enqueued; the block of the first one was aborted and
\* its entry put back in the queue; both entries are committed, the first
\* one first.
C5_Witness ==
    /\ Len(entries) = 2
    /\ Len(chain) = 2
    /\ Committed(1).qd = entries[1]
    /\ Committed(2).qd = entries[2]
    /\ \E a \in Refs :
            /\ heap[a].state = ABORTED
            /\ heap[a].listening
            /\ heap[a].qd = entries[1]
            /\ a < chain[1]
    /\ stack = <<>>

\* C6: the first resume after the active block was aborted finds the chain
\* without an active block and constructs a block for the re-queued entry.
C6_ResumeAfterAbort ==
    [][(last.op = "abort" /\ last.ev = "aborted" /\ last'.op = "resume")
        => (/\ block = Null
            /\ queue # <<>>
            /\ last'.ev = "constructing-block"
            /\ stack'[Len(stack')].qd = Head(queue))]_vars

\* C7 as stated: while 'new-block' is being delivered the chain has no
\* active block and the block is the last committed one.
C7_ClearedBeforeNewBlock ==
    (InWindow /\ Top.pc = "new-block")
        => (block = Null /\ chain # <<>> /\ chain[Len(chain)] = Top.b)

\* 'new-block' is being delivered for the block of frame f.
Delivering(f) == f.pc = "new-block"

\* C7, amended: the chain appends the READY block, delivers 'new-block'
\* while that block is still its active block, and only then clears the
\* active block and attempts the next construction.  So while 'new-block' is
\* delivered the block is the last committed one, READY and still active;
\* and the step after the delivery leaves the committed list alone, drops
\* the block as active block and emits 'waiting' (empty queue) or constructs
\* a block for the queue head.
C7_NewBlockThenClear ==
    [][/\ \A i \in 1..Len(stack') :
            Delivering(stack'[i]) =>
                /\ block' = stack'[i].b
                /\ heap'[block'].state = READY
                /\ chain' # <<>>
                /\ chain'[Len(chain')] = block'
       /\ (InWindow /\ Delivering(Top) /\ last'.op = "ready") =>
                /\ chain' = chain
                /\ block' # block
                /\ queue = <<>> => (block' = Null /\ last'.ev = "waiting")
                /\ (queue # <<>> /\ last'.err = "none") =>
                        /\ block' = Len(heap) + 1
                        /\ stack'[Len(stack')] =
                                Frame("constructing-block", block', Head(queue))]_vars

\* After 'new-block' was delivered for one block the chain cleared it and
\* constructed the next block.
C7_Witness ==
    /\ last = Did("ready", "constructing-block", "none")
    /\ chain # <<>>
    /\ block # Null
    /\ block # chain[Len(chain)]
    /\ heap[block].state = INITIALIZING

\* The step is the call of enqueueData up to its 'enqueue-data' notification.
EnqueueCalled == last'.op = "enqueueData" /\ last'.ev = "enqueue-data"

\* The step is the rest of enqueueData, after that notification.
EnqueueContinued ==
    /\ InWindow
    /\ Top.pc = "enqueue-data"
    /\ last'.op = "enqueueData"
    /\ last'.ev # "enqueue-data"

\* C8: enqueueData appends one new entry at the tail of the queue and leaves
\* the committed list and the blocks alone; then, when it returns normally,
\* a block for the head of the queue is under construction if the chain had
\* no active block, and an active block is left unchanged.
C8_EnqueueAppends ==
    [][/\ EnqueueCalled =>
            /\ Len(entries') = Len(entries) + 1
            /\ queue' = Append(queue, entries'[Len(entries')])
            /\ UNCHANGED <<chain, block, heap>>
       /\ (EnqueueContinued /\ block # Null) =>
            UNCHANGED <<chain, block, heap, queue>>
       /\ (EnqueueContinued /\ block = Null /\ queue # <<>> /\ last'.err = "none") =>
            /\ block' = Len(heap) + 1
            /\ Len(heap') = Len(heap) + 1
            /\ heap'[block'].state = INITIALIZING
            /\ \A b \in Refs : heap'[b] = heap[b]
            /\ stack'[Len(stack')] = Frame("constructing-block", block', Head(queue))
            /\ queue' = Tail(queue)
            /\ chain' = chain]_vars

\* enqueueData was called on a chain without an active block whose queue
\* held an older entry: the block under construction is for that entry, and
\* the new entry waits behind.
C8_Witness ==
    /\ last = Did("enqueueData", "constructing-block", "none")
    /\ queue # <<>>
    /\ block # Null
    /\ heap[block].state = INITIALIZING
    /\ EntryOf(block).seq < queue[Len(queue)].seq
    /\ queue[Len(queue)] = entries[Len(entries)]

\* C9: resume with an empty queue and no active block emits 'waiting' and
\* changes nothing; resume while a block is active emits nothing and changes
\* nothing.
C9_ResumeIdleOrBusy ==
    [][last'.op = "resume" =>
        /\ (block = Null /\ queue = <<>>) =>
                /\ last'.ev = "waiting"
                /\ stack' = Append(stack, Frame("waiting", Null, NoEntry))
                /\ UNCHANGED <<chain, queue, block, heap, ticks, difficulty, entries>>
        /\ block # Null =>
                /\ last'.ev = "none"
                /\ last'.err = "none"
                /\ UNCHANGED <<chain, queue, block, heap, ticks, difficulty, entries, stack>>]_vars

\* resume was called on a chain that has committed its blocks and has
\* nothing queued: 'waiting' is being delivered.
C9_Witness ==
    /\ last = Did("resume", "waiting", "none")
    /\ chain # <<>>
    /\ queue = <<>>
    /\ block = Null
    /\ Top.pc = "waiting"

\* C10: assigning a difficulty changes no block, active or committed; no
\* step changes the difficulty of a block; and a block is constructed with
\* the difficulty the chain has at that moment.
C10_DifficultyIsolation ==
    [][/\ last'.op = "setDifficulty" => UNCHANGED <<heap, chain, block, queue>>
       /\ \A b \in Refs : heap'[b].difficulty = heap[b].difficulty
       /\ Len(heap') > Len(heap) =>
            heap'[Len(heap')].difficulty = difficulty]_vars

\* The difficulty was assigned while a block of the default difficulty was
\* active; that block was aborted and the block constructed again for its
\* entry has the assigned difficulty.
C10_Witness ==
    /\ difficulty = MaxHashValue
    /\ block # Null
    /\ heap[block].listening
    /\ heap[block].difficulty = MaxHashValue
    /\ \E a \in Refs :
            /\ heap[a].state = ABORTED
            /\ heap[a].listening
            /\ heap[a].qd = heap[block].qd
            /\ heap[a].difficulty = DIFFICULTY

\* C11: assigning a value that is not a number throws an error to the caller
\* in the same call and leaves the difficulty, the queue, the committed list,
\* the active block and every block unchanged.  (Every value this
\* specification assigns is a non-number.)
C11_NonNumericRejected ==
    [][last'.op = "setDifficulty" =>
        /\ last'.err = "type"
        /\ stack' \in Unwinds(stack)
        /\ UNCHANGED <<difficulty, queue, chain, block, heap, ticks>>]_vars

\* A non-number was assigned while a block was active, an entry queued and a
\* block committed: the call threw and the difficulty is the default.
C11_Witness ==
    /\ last = Did("setDifficulty", "none", "type")
    /\ difficulty = DIFFICULTY
    /\ block # Null
    /\ queue # <<>>
    /\ chain # <<>>

\* The blocks whose search callback has not started yet.
Scheduled == {ticks[i] : i \in 1..Len(ticks)}

\* C12: the state of a block changes only from INITIALIZING, and only to
\* READY or ABORTED: a READY or ABORTED block keeps its state in every step,
\* abort requests and search steps included.
C12_OneWayStates ==
    [][\A b \in Refs :
        heap'[b].state # heap[b].state =>
            /\ heap[b].state = INITIALIZING
            /\ heap'[b].state \in {READY, ABORTED}]_vars

\* An abort was requested on the active block after it became READY and it
\* is still READY, and the search callback of an ABORTED block has run and
\* left it ABORTED.
C12_Witness ==
    /\ last = Did("abort", "none", "already")
    /\ block # Null
    /\ heap[block].state = READY
    /\ \E a \in Refs : heap[a].state = ABORTED /\ a \notin Scheduled

\* The blocks created with a hash supplied.
WithSuppliedHash == {b \in Refs : heap[b].suppliedHash # NoHash}

\* C13 as stated: a block has a hash if and only if its state is not
\* INITIALIZING.
C13_HashIffNotInitializing ==
    \A b \in Refs : (heap[b].hash # NullHash) <=> (heap[b].state # INITIALIZING)

\* C13, amended: a block has a hash if and only if its state is READY or it
\* was created with a hash supplied.  A block created without a hash has
\* none while it is INITIALIZING and none once it is ABORTED; a block created
\* with a hash has that hash in every state.
C13_HashIffReadyOrSupplied ==
    \A b \in Refs :
        /\ (heap[b].hash # NullHash) <=>
                (heap[b].state = READY \/ b \in WithSuppliedHash)
        /\ b \in WithSuppliedHash => heap[b].hash = heap[b].suppliedHash

\* A block created without a hash was aborted, its search callback has run
\* and it has no hash; another block was created with a hash supplied.
C13_Witness ==
    /\ \E a \in Refs \ WithSuppliedHash :
            heap[a].state = ABORTED /\ a \notin Scheduled /\ heap[a].hash = NullHash
    /\ \E b \in WithSuppliedHash :
            heap[b].state = INITIALIZING /\ heap[b].hash # NullHash

\* C14: a block created with a hash supplied is READY from its creation on,
\* no search is scheduled for it, and its nonce and hash are never modified.
C14_SuppliedHashIsReady ==
    [][\A b \in 1..Len(heap') :
        heap'[b].suppliedHash # NoHash =>
            /\ heap'[b].state = READY
            /\ b \notin {ticks'[i] : i \in 1..Len(ticks')}
            /\ b \in Refs =>
                    (heap'[b].nonce = heap[b].nonce /\ heap'[b].hash = heap[b].hash)]_vars

\* The search callback of block b has run and returned.
SearchOver(b) ==
    /\ b \notin Scheduled
    /\ \A i \in 1..Len(stack) : ~(stack[i].pc = "search" /\ stack[i].b = b)

\* C15: a block emits 'ready' or 'aborted' at most once in all, never both
\* and never one of them twice: 'ready' exactly when it becomes READY and
\* 'aborted' exactly when it becomes ABORTED; and a block the chain built
\* whose search callback has returned has emitted exactly one of them.
C15_OneNotification ==
    \A b \in Refs :
        /\ Len(heap[b].emitted) <= 1
        /\ (heap[b].state = INITIALIZING) <=> (heap[b].emitted = <<>>)
        /\ (heap[b].state = READY) <=> (heap[b].emitted = <<"ready">>)
        /\ (heap[b].state = ABORTED) <=> (heap[b].emitted = <<"aborted">>)
        /\ SearchOver(b) => Len(heap[b].emitted) = 1

\* A committed block emitted 'ready' once, an abort requested after that
\* emitted nothing more, and an aborted block whose search callback has
\* returned emitted 'aborted' once.
C15_Witness ==
    /\ last = Did("abort", "none", "already")
    /\ chain # <<>>
    /\ Committed(1).emitted = <<"ready">>
    /\ \E a \in Refs : SearchOver(a) /\ heap[a].emitted = <<"aborted">>

\* C16: a call of the chain's abort never throws: in every state, from the
\* top level or from a listener, it returns normally.
C16_AbortNeverThrows ==
    last.op = "abort" => last.err = "none"

\* C17: a READY block's hash is the digest of its signiture with its stored
\* nonce, and its numeric value is at most the block's difficulty; so the
\* valid accessor of every committed block is true, and so is the chain's.
C17_ReadyIsValid ==
    /\ \A b \in Refs :
            heap[b].state = READY =>
                /\ heap[b].hash = Sha256(Signiture(heap[b]) \o <<heap[b].nonce>>)
                /\ AtMost(ParseInt16(heap[b].hash), heap[b].difficulty)
    /\ \A i \in 1..Len(chain) :
            Committed(i).state = READY /\ BlockValid(Committed(i))
    /\ ChainValid(chain, heap)

\* C17 holds of the blocks whose difficulty compares as a number: a number
\* other than NaN.
C17_ReadyIsValidForNumbers ==
    /\ \A b \in Refs :
            (heap[b].state = READY /\ ~IsNaN(heap[b].difficulty)) =>
                /\ heap[b].hash = Sha256(Signiture(heap[b]) \o <<heap[b].nonce>>)
                /\ BlockValid(heap[b])
    /\ (\A i \in 1..Len(chain) : ~IsNaN(Committed(i).difficulty))
            => ChainValid(chain, heap)

\* C18: the chain's validity check is true if and only if every committed
\* block is valid, has its position as index, and has the hash of the block
\* committed before it as previousHash (the empty string at position 0).
C18_ValidIffLinked ==
    ChainValid(chain, heap) <=>
        \A i \in 1..Len(chain) :
            /\ BlockValid(Committed(i))
            /\ Committed(i).index = i - 1
            /\ Committed(i).previousHash =
                    IF i = 1 THEN EmptyString ELSE Committed(i - 1).hash

\* Two blocks are committed and linked; the first one is valid and the
\* second one, constructed after NaN was assigned to the difficulty, is
\* not: the chain's validity check is false.
C18_Witness ==
    /\ Len(chain) = 2
    /\ BlockValid(Committed(1))
    /\ ~BlockValid(Committed(2))
    /\ Committed(2).previousHash = Committed(1).hash
    /\ ~ChainValid(chain, heap)

\* Every nonce from 0 to n gives a digest of signiture sig above difficulty d.
AllRejected(sig, n, d) == \A m \in 0..n : Rejected(Sha256(sig \o <<m>>), d)

\* Block blk, once READY, is as a search from nonce 0 leaves it: it holds
\* the least nonce whose digest is at most its difficulty, and that digest.
SearchedFromZero(blk) ==
    blk.state = READY =>
        /\ blk.nonce >= 0
        /\ blk.hash = Sha256(Signiture(blk) \o <<blk.nonce>>)
        /\ ParseInt16(blk.hash) <= blk.difficulty
        /\ AllRejected(Signiture(blk), blk.nonce - 1, blk.difficulty)
        /\ blk.difficulty = MaxHashValue =>
                (blk.nonce = 0 /\ blk.hash = Sha256(Signiture(blk) \o <<0>>))

\* Every reply of the hash worker holds the least nonce whose digest is at
\* most the difficulty of its message, and that digest.
WorkerSearchesFromZero ==
    \A k \in 1..Len(worker'.sent) :
        LET r == worker'.sent[k]
            sig == worker'.posted[k].signiture
            d == worker'.posted[k].difficulty
        IN  /\ r.nonce >= 0
            /\ r.hash = Sha256(sig \o <<r.nonce>>)
            /\ AllRejected(sig, r.nonce - 1, d)

\* C19: the search of a block (every block that is searched: one created
\* without a hash) and the hash worker probe the nonces 0, 1, 2, ... one by
\* one and end at the least nonce n >= 0 whose digest is at most the
\* difficulty, storing (or sending) that nonce and that digest; with the
\* difficulty every digest satisfies the result is nonce 0 and the digest
\* of signiture + 0.
C19_SearchFromZero ==
    [][/\ \A b \in Refs :
            heap'[b].nonce # heap[b].nonce => heap'[b].nonce = heap[b].nonce + 1
       /\ \A b \in 1..Len(heap') :
            heap'[b].suppliedHash = NoHash => SearchedFromZero(heap'[b])
       /\ WorkerSearchesFromZero]_vars

\* C19 holds of the searches that start from the default nonce: those of
\* the blocks created without a nonce option.
C19_SearchFromDefaultNonce ==
    [][/\ \A b \in Refs :
            heap'[b].nonce # heap[b].nonce => heap'[b].nonce = heap[b].nonce + 1
       /\ \A b \in 1..Len(heap') :
            (heap'[b].suppliedHash = NoHash /\ heap'[b].suppliedNonce = Undefined)
                => SearchedFromZero(heap'[b])
       /\ WorkerSearchesFromZero]_vars

\* C20: no queued data object in the queue is the one a committed block was
\* constructed for.
C20_QueueExcludesCommitted ==
    \A i \in 1..Len(chain) :
        \A k \in 1..Len(queue) : queue[k] # Committed(i).qd

\* An entry was aborted once, put back and then committed; an abort was
\* requested while 'new-block' was delivered for a committed block, with
\* another entry waiting in the queue.
C20_Witness ==
    /\ last = Did("abort", "none", "already")
    /\ InWindow
    /\ Top.pc = "new-block"
    /\ queue # <<>>
    /\ \E a \in Refs :
            /\ heap[a].state = ABORTED
            /\ heap[a].listening
            /\ \E i \in 1..Len(chain) : Committed(i).qd = heap[a].qd

\* C21: no queued data object is created for an absent payload: every
\* object createQueuedData has returned holds a payload.
C21_AbsentPayloadRejected ==
    \A k \in 1..Len(entries) : DataPresent(entries[k].data)

\* C22: enqueueData with an absent payload leaves the queue as it was: once
\* the call has returned and nothing is running, the queue holds no entry
\* with an absent payload.
C22_FailedSubmissionLeavesQueue ==
    stack = <<>> => \A i \in 1..Len(queue) : DataPresent(queue[i].data)

\* The payload P is what block blk holds: its data accessor returns P, or
\* the data of the object its data accessor returns is P.
PayloadHeld(blk, P) ==
    \/ blk.data = P
    \/ P.kind = "scalar" /\ blk.data.data = P.val

\* C23: the block committed for an entry holds the payload that was passed
\* to enqueueData for it.
C23_BlockStoresPayload ==
    \A i \in 1..Len(chain) : PayloadHeld(Committed(i), Committed(i).qd.data)

\* The fields f are not those of the next block of the chain: the index is
\* not the length of the committed list, the previous hash is not the
\* latest hash, or the hash is not the digest of the fields.
BadFields(f) ==
    \/ f.index # Len(chain)
    \/ f.previousHash # NextPreviousHash
    \/ f.hash # HashWithNonce(Probe(f.index, f.previousHash, f.difficulty), f.nonce)

\* C24: addBlock with a wrong index, previous hash or hash returns false,
\* throws nothing and leaves the committed list, the queue and the active
\* block as they were.
C24_InvalidAddBlockRejected ==
    [][(last'.op = "addBlock" /\ BadFields(last'.fields))
        => /\ last'.ret = FALSE
           /\ last'.err = "none"
           /\ UNCHANGED <<chain, queue, block>>]_vars

C24_Witness ==
    /\ last.op = "addBlock"
    /\ last.fields.index # Len(chain)
    /\ last.ret = FALSE
    /\ block # Null
    /\ chain # <<>>

\* C25: the committed list is append-only.  Every step keeps the committed
\* list as a prefix of the new one and the committed blocks as they were;
\* emptying the array the chain accessor returned is such a step.
C25_AppendOnly ==
    [][/\ Len(chain) <= Len(chain')
       /\ SubSeq(chain', 1, Len(chain)) = chain
       /\ \A i \in 1..Len(chain) : heap'[chain[i]] = heap[chain[i]]]_vars

\* A caller empties the array it was returned, with two blocks committed.
C25_Witness ==
    /\ last.op = "getChain"
    /\ Len(chain) = 2
    /\ \A i \in 1..Len(chain) : Committed(i).state = READY

\* C26: an ABORTED block is searched no more: no step changes its nonce or
\* its hash, moves it out of ABORTED or makes it emit 'ready'.
C26_AbortedIsNotSearched ==
    [][\A b \in Refs :
        heap[b].state = ABORTED
            => /\ heap'[b].nonce = heap[b].nonce
               /\ heap'[b].hash = heap[b].hash
               /\ heap'[b].state = ABORTED
               /\ heap'[b].emitted = heap[b].emitted]_vars

\* The search callback of an aborted block has run and returned.
C26_Witness ==
    /\ stack = <<>>
    /\ last = Did("search", "none", "none")
    /\ \E b \in Refs :
        /\ heap[b].state = ABORTED
        /\ heap[b].emitted = <<"aborted">>
        /\ heap[b].hash = NullHash
        /\ \A i \in 1..Len(ticks) : ticks[i] # b

\* The number of places that hold the entry of sequence number k: the
\* positions of the queue, the active block, the committed blocks.
Places(k) ==
    Cardinality({i \in 1..Len(queue) : queue[i].seq = k})
    + (IF block # Null /\ EntryOf(block).seq = k THEN 1 ELSE 0)
    + Cardinality({i \in 1..Len(chain) : EntryOf(chain[i]).seq = k})

\* C27: no entry is lost or duplicated.  With present payloads only, once
\* every call has returned, each entry ever enqueued is in exactly one of
\* the queue, the active block and the committed list: no entry is in two
\* places, and the places are as many as the entries.
C27_EntriesConserved ==
    (stack = <<>> /\ AllPresent)
        => /\ \A k \in 1..Len(entries) : Places(k) <= 1
           /\ Len(entries) = Len(queue) + (IF block # Null THEN 1 ELSE 0) + Len(chain)

\* C28: once every call has returned (the last step threw nothing) and no
\* listener is running, the active block, if there is one, is INITIALIZING.
C28_ActiveIsInitializing ==
    (stack = <<>> /\ last.err = "none" /\ block # Null)
        => heap[block].state = INITIALIZING

\* The entry of sequence number k is committed.
IsCommitted(k) == \E i \in 1..Len(chain) : EntryOf(chain[i]).seq = k

\* The bounds of the model have cut the behaviour short: no block is left to
\* create or a search has used its attempts.
CutShort ==
    \/ Len(heap) >= MaxBlocks
    \/ \E b \in Refs : heap[b].nonce >= MaxNonce

\* C29: with searches that terminate, finitely many aborts and callers
\* that resume the chain, every entry passed to enqueueData with a payload
\* is eventually committed.
C29_EveryEntryCommitted ==
    (<>[][last'.op # "abort"]_vars)
        => \A k \in 1..MaxEntries :
            (Len(entries) >= k /\ AllPresent)
                ~> (IsCommitted(k) \/ CutShort \/ ~AllPresent)

\* The chain holds an active block that nothing will complete: the block is
\* not INITIALIZING and no 'ready' listener is about to clear it.
Stuck ==
    /\ block # Null
    /\ heap[block].state # INITIALIZING
    /\ \A i \in 1..Len(stack) : stack[i].pc # "new-block"

\* Lemma for C29: a stuck chain stays stuck, with the same committed list.
C29_StuckForEver == [][Stuck => (Stuck' /\ chain' = chain /\ block' = block)]_vars

\* C30: a block created from the fields of a block that reached READY by
\* its own search has the same nonce and hash, and is valid.
C30_ImportRoundTrip ==
    last.op = "import"
        => /\ heap[Len(heap)].nonce = heap[last.from].nonce
           /\ heap[Len(heap)].hash = heap[last.from].hash
           /\ BlockValid(heap[Len(heap)])

\* Lemma for C30: the round trip holds for every found nonce but 0.
C30_ImportRoundTripFromOne ==
    (last.op = "import" /\ heap[last.from].nonce # 0)
        => /\ heap[Len(heap)].nonce = heap[last.from].nonce
           /\ heap[Len(heap)].hash = heap[last.from].hash
           /\ BlockValid(heap[Len(heap)])

====
